---------------------------- MODULE Spec2Model ----------------------------
(***************************************************************************)
(* Model of the software-based BCCSP dispatch engine, bccsp/sw/impl.go.    *)
(*                                                                         *)
(* The engine (impl) holds a configuration, a key store reference and five *)
(* registries built once by New.  Every operation is a synchronous call;   *)
(* an action below is one whole call: argument validation, dispatch, the   *)
(* computation, the StoreKey call when the options are not ephemeral, and  *)
(* the return.  The key store, the hash/sign/cipher strategies and the DER *)
(* decoders are collaborators: their answers are nondeterministic inputs   *)
(* of the call.                                                            *)
(*                                                                         *)
(* The NIST curves are replaced by two short Weierstrass curves            *)
(* y^2 = x^3 - 3x + b over small prime fields, of prime group order, with  *)
(* the conventions of crypto/elliptic: the point at infinity is (0, 0),    *)
(* and (0, 0) is not on the curve.                                         *)
(***************************************************************************)
EXTENDS Integers, Sequences, FiniteSets, TLC

(***************************************************************************)
(* Bounds of the model.                                                    *)
(***************************************************************************)
\* expansion values are byte strings of length 0..MaxExpLen ...
MaxExpLen == 2
\* ... over the bytes 0..MaxExpByte
MaxExpByte == 1
\* raw byte material handed to KeyImport has length 0..MaxRawLen ...
MaxRawLen == 33
\* ... and is filled with one byte of 0..MaxFillByte
MaxFillByte == 1
\* HMAC arguments, digests, signatures, messages: length 0..MaxArgLen
MaxArgLen == 1
\* the random source yields the values 0..MaxEntropy
MaxEntropy == 10
\* the number of callers using one engine concurrently
NumCallers == 2

(***************************************************************************)
(* Byte strings and math/big conversions.                                  *)
(***************************************************************************)
ByteRadix == 256

Fill(len, b) == [i \in 1..len |-> b]

RECURSIVE SeqsUpTo(_, _)
SeqsUpTo(S, n) ==
    IF n = 0 THEN {<<>>}
    ELSE LET shorter == SeqsUpTo(S, n - 1)
         IN  shorter \cup {Append(s, b) : s \in {t \in shorter : Len(t) = n - 1}, b \in S}

\* big.Int.SetBytes: the bytes read as a big-endian unsigned integer
RECURSIVE SetBytes(_)
SetBytes(buf) ==
    IF buf = <<>> THEN 0
    ELSE SetBytes(SubSeq(buf, 1, Len(buf) - 1)) * ByteRadix + buf[Len(buf)]

\* big.Int.Bytes: the big-endian bytes of the absolute value, no leading zero
RECURSIVE Bytes(_)
Bytes(v) ==
    IF v = 0 THEN <<>>
    ELSE Append(Bytes(v \div ByteRadix), v % ByteRadix)

RECURSIVE SumBytes(_)
SumBytes(buf) ==
    IF buf = <<>> THEN 0 ELSE buf[1] + SumBytes(Tail(buf))

(***************************************************************************)
(* Elliptic curves (crypto/elliptic), scaled down.                         *)
(***************************************************************************)
\* elliptic.P256(): y^2 = x^3 - 3x + 1 over GF(7), base point of order 5
P256 == [Name |-> "P256", P |-> 7, B |-> 1, Gx |-> 0, Gy |-> 1, N |-> 5]
\* elliptic.P384(): y^2 = x^3 - 3x + 10 over GF(11), base point of order 7
P384 == [Name |-> "P384", P |-> 11, B |-> 10, Gx |-> 2, Gy |-> 1, N |-> 7]

Curves == {P256, P384}

\* the affine pair crypto/elliptic uses for the point at infinity
Infinity == [X |-> 0, Y |-> 0]

Pt(x, y) == [X |-> x, Y |-> y]

\* modular inverse in GF(p)
ModInverse(v, p) == CHOOSE z \in 1..(p - 1) : (z * (v % p)) % p = 1

\* Curve.IsOnCurve: y^2 = x^3 - 3x + b (mod p)
IsOnCurve(curve, x, y) ==
    (y * y) % curve.P = (x * x * x - 3 * x + curve.B) % curve.P

\* Curve.Double
Double(curve, pt) ==
    IF pt = Infinity \/ pt.Y = 0 THEN Infinity
    ELSE LET p   == curve.P
             lam == ((3 * pt.X * pt.X - 3) * ModInverse(2 * pt.Y, p)) % p
             x3  == (lam * lam - 2 * pt.X) % p
             y3  == (lam * (pt.X - x3) - pt.Y) % p
         IN  Pt(x3, y3)

\* Curve.Add
Add(curve, p1, p2) ==
    IF p1 = Infinity THEN p2
    ELSE IF p2 = Infinity THEN p1
    ELSE IF p1.X = p2.X /\ (p1.Y + p2.Y) % curve.P = 0 THEN Infinity
    ELSE IF p1 = p2 THEN Double(curve, p1)
    ELSE LET p   == curve.P
             lam == ((p2.Y - p1.Y) * ModInverse(p2.X - p1.X, p)) % p
             x3  == (lam * lam - p1.X - p2.X) % p
             y3  == (lam * (p1.X - x3) - p1.Y) % p
         IN  Pt(x3, y3)

\* one byte of the double-and-add loop of Curve.ScalarMult, high bit first
RECURSIVE ScalarMultByte(_, _, _, _, _)
ScalarMultByte(curve, base, acc, byte, bitNum) ==
    IF bitNum = 8 THEN acc
    ELSE LET dbl  == Double(curve, acc)
             bit  == (byte \div (2 ^ (7 - bitNum))) % 2
             next == IF bit = 1 THEN Add(curve, base, dbl) ELSE dbl
         IN  ScalarMultByte(curve, base, next, byte, bitNum + 1)

RECURSIVE ScalarMultFrom(_, _, _, _)
ScalarMultFrom(curve, base, acc, k) ==
    IF k = <<>> THEN acc
    ELSE ScalarMultFrom(curve, base, ScalarMultByte(curve, base, acc, Head(k), 0), Tail(k))

\* Curve.ScalarBaseMult(k): k*G, k a big-endian byte string
ScalarBaseMult(curve, k) ==
    ScalarMultFrom(curve, Pt(curve.Gx, curve.Gy), Infinity, k)


(***************************************************************************)
(* Keys, options and errors.                                               *)
(***************************************************************************)
NilKey == [type |-> "nil"]
NilOpts == [type |-> "nil"]
NoError == "nil"

\* ecdsaPrivateKey{privKey}: curve, public point and scalar D
ecdsaPrivateKey(curve, pt, d) ==
    [type |-> "ecdsaPrivateKey", Curve |-> curve.Name, X |-> pt.X, Y |-> pt.Y, D |-> d]

\* ecdsaPublicKey{pubKey}: curve and public point
ecdsaPublicKey(curve, pt) ==
    [type |-> "ecdsaPublicKey", Curve |-> curve.Name, X |-> pt.X, Y |-> pt.Y]

\* aesPrivateKey{privKey, exportable}
aesPrivateKey(privKey, exportable) ==
    [type |-> "aesPrivateKey", privKey |-> privKey, exportable |-> exportable]

rsaPrivateKey(bits, id) == [type |-> "rsaPrivateKey", bits |-> bits, id |-> id]

rsaPublicKey(bits, id) == [type |-> "rsaPublicKey", bits |-> bits, id |-> id]

CurveOf(k) == CHOOSE c \in Curves : c.Name = k.Curve

PointOf(k) == Pt(k.X, k.Y)

\* the result of a call: the value returned, the error, the StoreKey calls
\* made on the way
Result(val, err, stored) == [val |-> val, err |-> err, stored |-> stored]

Fail(err) == Result(NilKey, err, <<>>)

(***************************************************************************)
(* Construction: New(securityLevel, hashFamily, keyStore).                 *)
(***************************************************************************)
\* config.setSecurityLevel: the constants a (level, family) pair resolves to
setSecurityLevel(securityLevel, hashFamily) ==
    [securityLevel |-> securityLevel,
     hashFamily    |-> hashFamily,
     ellipticCurve |-> IF securityLevel = 256 THEN "P256" ELSE "P384",
     hashFunction  |-> IF hashFamily = "SHA2"
                       THEN (IF securityLevel = 256 THEN "sha256.New" ELSE "sha512.New384")
                       ELSE (IF securityLevel = 256 THEN "sha3.New256" ELSE "sha3.New384"),
     rsaBitLength  |-> IF securityLevel = 256 THEN 2048 ELSE 3072,
     aesBitLength  |-> 32]

\* the output length in bytes of the hash a constructor builds
HashSize(hashFunction) ==
    IF hashFunction \in {"sha256.New", "sha3.New256"} THEN 32 ELSE 48

\* the encryptors, decryptors, signers and verifiers New registers, by key type
encryptors == [t \in {"aesPrivateKey"} |-> "aescbcpkcs7Encryptor"]

decryptors == [t \in {"aesPrivateKey"} |-> "aescbcpkcs7Decryptor"]

\* a signer registry that also holds an entry for EC public keys
signersWithPublicKey ==
    [t \in {"ecdsaPrivateKey", "ecdsaPublicKey", "rsaPrivateKey"} |->
        IF t = "rsaPrivateKey" THEN "rsaSigner" ELSE "ecdsaSigner"]

signers ==
    [t \in {"ecdsaPrivateKey", "rsaPrivateKey"} |->
        IF t = "ecdsaPrivateKey" THEN "ecdsaSigner" ELSE "rsaSigner"]

verifiers ==
    [t \in {"ecdsaPrivateKey", "ecdsaPublicKey", "rsaPrivateKey", "rsaPublicKey"} |->
        CASE t = "ecdsaPrivateKey" -> "ecdsaPrivateKeyVerifier"
          [] t = "ecdsaPublicKey"  -> "ecdsaPublicKeyKeyVerifier"
          [] t = "rsaPrivateKey"   -> "rsaPrivateKeyVerifier"
          [] t = "rsaPublicKey"    -> "rsaPublicKeyKeyVerifier"]

\* the hashers New registers, by hash options type: the hash each one builds
hashers(conf) ==
    [t \in {"SHAOpts", "SHA256Opts", "SHA384Opts", "SHA3_256Opts", "SHA3_384Opts"} |->
        CASE t = "SHAOpts"      -> conf.hashFunction
          [] t = "SHA256Opts"   -> "sha256.New"
          [] t = "SHA384Opts"   -> "sha512.New384"
          [] t = "SHA3_256Opts" -> "sha3.New256"
          [] t = "SHA3_384Opts" -> "sha3.New384"]

New(securityLevel, hashFamily) ==
    LET conf == setSecurityLevel(securityLevel, hashFamily)
    IN  [conf       |-> conf,
         encryptors |-> encryptors,
         decryptors |-> decryptors,
         signers    |-> signers,
         verifiers  |-> verifiers,
         hashers    |-> hashers(conf)]

(***************************************************************************)
(* State.                                                                  *)
(***************************************************************************)
VARIABLES
    csp,            \* the engine: configuration and the five registries
    pc,             \* the caller: "idle", or "returned" holding a call's result
    call,           \* the operation called and its arguments
    ret,            \* what the call returned: [val, err]
    storeCalls,     \* the StoreKey calls the call made: <<[key, ok]>>
    strategyCalls,  \* the strategies the call invoked: <<[registry, strategy]>>
    callers         \* concurrent callers: each one's position, call and result

vars == <<csp, pc, call, ret, storeCalls, strategyCalls, callers>>

Callers == 1..NumCallers

NoCall == [op |-> "none"]
NoRet == [val |-> NilKey, err |-> NoError]

\* a concurrent caller with no call in progress
NoAnswer == [ok |-> FALSE]

NoEngine == [conf |-> "none"]

IdleCaller ==
    [pc |-> "idle", call |-> NoCall, engine |-> NoEngine, answer |-> NoAnswer,
     ret |-> NoRet]

Init ==
    /\ csp \in {New(l, f) : l \in {256, 384}, f \in {"SHA2", "SHA3"}}
    /\ pc = "idle"
    /\ call = NoCall
    /\ ret = NoRet
    /\ storeCalls = <<>>
    /\ strategyCalls = <<>>
    /\ callers = [c \in Callers |-> IdleCaller]

\* KeyStore.StoreKey(k), answering ok or an error
StoreKey(k, ok) == [key |-> k, ok |-> ok]

(***************************************************************************)
(* The shared tail of KeyGen, KeyDeriv and KeyImport:                      *)
(*     if !opts.Ephemeral() { err = csp.ks.StoreKey(k); if err != nil {    *)
(*         return nil, fmt.Errorf(...) } }                                 *)
(*     return k, nil                                                       *)
(***************************************************************************)
\* the tail with the ephemeral test dropped: every key is stored
StoreAlways(k, opts, storeOK, errText) ==
    IF storeOK
    THEN Result(k, NoError, <<StoreKey(k, TRUE)>>)
    ELSE Result(NilKey, errText, <<StoreKey(k, FALSE)>>)

\* the tail returning the computed key together with the store's error
StoreFailureKeepsKey(k, opts, storeOK, errText) ==
    IF ~opts.Temporary
    THEN IF storeOK
         THEN Result(k, NoError, <<StoreKey(k, TRUE)>>)
         ELSE Result(k, errText, <<StoreKey(k, FALSE)>>)
    ELSE Result(k, NoError, <<>>)

StoreUnlessEphemeral(k, opts, storeOK, errText) ==
    IF ~opts.Temporary
    THEN IF storeOK
         THEN Result(k, NoError, <<StoreKey(k, TRUE)>>)
         ELSE Result(NilKey, errText, <<StoreKey(k, FALSE)>>)
    ELSE Result(k, NoError, <<>>)

(***************************************************************************)
(* KeyGen                                                                  *)
(***************************************************************************)
KeyGenOptsTypes ==
    {"ECDSAKeyGenOpts", "ECDSAP256KeyGenOpts", "ECDSAP384KeyGenOpts",
     "AESKeyGenOpts", "AES256KeyGenOpts", "AES192KeyGenOpts", "AES128KeyGenOpts",
     "RSAKeyGenOpts", "RSA1024KeyGenOpts", "RSA2048KeyGenOpts",
     "RSA3072KeyGenOpts", "RSA4096KeyGenOpts"}

\* ecdsa.GenerateKey(curve, rand): D = (entropy mod (N-1)) + 1, Q = D*G
GenerateKeyEC(curve, entropy) ==
    LET d == (entropy % (curve.N - 1)) + 1
    IN  ecdsaPrivateKey(curve, ScalarBaseMult(curve, Bytes(d)), d)

\* GetRandomBytes(len)
GetRandomBytes(len, entropy) == Fill(len, entropy % ByteRadix)

\* the body of impl.KeyGen; entropy, primOK and storeOK are the answers of
\* the random source, of the native primitive and of the key store
KeyGenImpl(engine, opts, entropy, primOK, storeOK) ==
    IF opts = NilOpts THEN Fail("Invalid Opts parameter. It must not be nil.")
    ELSE IF opts.type \notin KeyGenOptsTypes THEN Fail("Unrecognized KeyGenOpts provided")
    ELSE IF ~primOK THEN Fail("Failed generating key")
    ELSE LET t == opts.type
             k == CASE t = "ECDSAKeyGenOpts" ->
                         GenerateKeyEC(CHOOSE c \in Curves : c.Name = engine.conf.ellipticCurve,
                                       entropy)
                    [] t = "ECDSAP256KeyGenOpts" -> GenerateKeyEC(P256, entropy)
                    [] t = "ECDSAP384KeyGenOpts" -> GenerateKeyEC(P384, entropy)
                    [] t = "AESKeyGenOpts" ->
                         aesPrivateKey(GetRandomBytes(engine.conf.aesBitLength, entropy), FALSE)
                    [] t = "AES256KeyGenOpts" -> aesPrivateKey(GetRandomBytes(32, entropy), FALSE)
                    [] t = "AES192KeyGenOpts" -> aesPrivateKey(GetRandomBytes(24, entropy), FALSE)
                    [] t = "AES128KeyGenOpts" -> aesPrivateKey(GetRandomBytes(16, entropy), FALSE)
                    [] t = "RSAKeyGenOpts" -> rsaPrivateKey(engine.conf.rsaBitLength, entropy)
                    [] t = "RSA1024KeyGenOpts" -> rsaPrivateKey(1024, entropy)
                    [] t = "RSA2048KeyGenOpts" -> rsaPrivateKey(2048, entropy)
                    [] t = "RSA3072KeyGenOpts" -> rsaPrivateKey(3072, entropy)
                    [] t = "RSA4096KeyGenOpts" -> rsaPrivateKey(4096, entropy)
         IN  StoreUnlessEphemeral(k, opts, storeOK, "Failed storing key")

KeyGenOptsInputs ==
    {NilOpts}
    \cup {[type |-> t, Temporary |-> e] :
            t \in KeyGenOptsTypes \cup {"UnknownKeyGenOpts"}, e \in BOOLEAN}

\* the caller's side of every key-returning call
Returns(c, r) ==
    /\ pc' = "returned"
    /\ call' = c
    /\ ret' = [val |-> r.val, err |-> r.err]
    /\ storeCalls' = r.stored
    /\ strategyCalls' = <<>>
    /\ UNCHANGED <<csp, callers>>

KeyGen ==
    /\ pc = "idle"
    /\ \E opts \in KeyGenOptsInputs, entropy \in 0..MaxEntropy, primOK, storeOK \in BOOLEAN :
        Returns([op |-> "KeyGen", opts |-> opts],
                KeyGenImpl(csp, opts, entropy, primOK, storeOK))

(***************************************************************************)
(* KeyDeriv                                                                *)
(***************************************************************************)
\* the public branch reducing the expansion value modulo N instead of N-1
DerivECDSAPublicKeyModN(ecdsaK, opts, storeOK) ==
    LET curve == CurveOf(ecdsaK)
        e     == SetBytes(opts.ExpansionValue)
        k     == (e % curve.N) + 1
        temp  == ScalarBaseMult(curve, Bytes(k))
        tempSK == Add(curve, PointOf(ecdsaK), temp)
        isOn  == IsOnCurve(curve, tempSK.X, tempSK.Y)
    IN  IF ~isOn THEN Fail("Failed temporary public key IsOnCurve check.")
        ELSE StoreUnlessEphemeral(ecdsaPublicKey(curve, tempSK), opts, storeOK,
                                  "Failed storing ECDSA key")

\* the public branch using the expansion value unreduced
DerivECDSAPublicKeyUnreduced(ecdsaK, opts, storeOK) ==
    LET curve == CurveOf(ecdsaK)
        k     == SetBytes(opts.ExpansionValue)
        temp  == ScalarBaseMult(curve, Bytes(k))
        tempSK == Add(curve, PointOf(ecdsaK), temp)
        isOn  == IsOnCurve(curve, tempSK.X, tempSK.Y)
    IN  IF ~isOn THEN Fail("Failed temporary public key IsOnCurve check.")
        ELSE StoreUnlessEphemeral(ecdsaPublicKey(curve, tempSK), opts, storeOK,
                                  "Failed storing ECDSA key")

\* case *ecdsaPublicKey, case *bccsp.ECDSAReRandKeyOpts
DerivECDSAPublicKey(ecdsaK, opts, storeOK) ==
    LET curve == CurveOf(ecdsaK)
        e     == SetBytes(opts.ExpansionValue)
        n     == curve.N - 1
        k     == (e % n) + 1
        temp  == ScalarBaseMult(curve, Bytes(k))
        tempSK == Add(curve, PointOf(ecdsaK), temp)
        isOn  == IsOnCurve(curve, tempSK.X, tempSK.Y)
    IN  IF ~isOn THEN Fail("Failed temporary public key IsOnCurve check.")
        ELSE StoreUnlessEphemeral(ecdsaPublicKey(curve, tempSK), opts, storeOK,
                                  "Failed storing ECDSA key")

\* the private branch reducing the new scalar modulo N-1 instead of N
DerivECDSAPrivateKeyWrongModulus(ecdsaK, opts, storeOK) ==
    LET curve == CurveOf(ecdsaK)
        e     == SetBytes(opts.ExpansionValue)
        n     == curve.N - 1
        k     == (e % n) + 1
        d     == (ecdsaK.D + k) % n
        temp  == ScalarBaseMult(curve, Bytes(k))
        tempSK == Add(curve, PointOf(ecdsaK), temp)
        isOn  == IsOnCurve(curve, tempSK.X, tempSK.Y)
    IN  IF ~isOn THEN Fail("Failed temporary public key IsOnCurve check.")
        ELSE StoreUnlessEphemeral(ecdsaPrivateKey(curve, tempSK, d), opts, storeOK,
                                  "Failed storing ECDSA key")

\* the private branch without the IsOnCurve check
DerivECDSAPrivateKeyUnchecked(ecdsaK, opts, storeOK) ==
    LET curve == CurveOf(ecdsaK)
        e     == SetBytes(opts.ExpansionValue)
        n     == curve.N - 1
        k     == (e % n) + 1
        d     == (ecdsaK.D + k) % curve.N
        temp  == ScalarBaseMult(curve, Bytes(k))
        tempSK == Add(curve, PointOf(ecdsaK), temp)
    IN  StoreUnlessEphemeral(ecdsaPrivateKey(curve, tempSK, d), opts, storeOK,
                             "Failed storing ECDSA key")

\* case *ecdsaPrivateKey, case *bccsp.ECDSAReRandKeyOpts
DerivECDSAPrivateKey(ecdsaK, opts, storeOK) ==
    LET curve == CurveOf(ecdsaK)
        e     == SetBytes(opts.ExpansionValue)
        n     == curve.N - 1
        k     == (e % n) + 1
        d     == (ecdsaK.D + k) % curve.N
        temp  == ScalarBaseMult(curve, Bytes(k))
        tempSK == Add(curve, PointOf(ecdsaK), temp)
        isOn  == IsOnCurve(curve, tempSK.X, tempSK.Y)
    IN  IF ~isOn THEN Fail("Failed temporary public key IsOnCurve check.")
        ELSE StoreUnlessEphemeral(ecdsaPrivateKey(curve, tempSK, d), opts, storeOK,
                                  "Failed storing ECDSA key")

\* hmac.New(hashFunction, key); mac.Write(argument); mac.Sum(nil): a
\* deterministic byte string of the hash's output length
HmacSum(hashFunction, key, argument) ==
    [i \in 1..HashSize(hashFunction) |->
        (SumBytes(key) + 3 * SumBytes(argument) + 5 * Len(argument) + 7 * i) % ByteRadix]

\* the truncated variant keeping the whole MAC
DerivHMACUntruncated(engine, aesK, opts, storeOK) ==
    LET mac == HmacSum(engine.conf.hashFunction, aesK.privKey, opts.Arg)
        hmacedKey == aesPrivateKey(mac, FALSE)
    IN  StoreUnlessEphemeral(hmacedKey, opts, storeOK, "Failed storing ECDSA key")

\* case *aesPrivateKey, case *bccsp.HMACTruncated256AESDeriveKeyOpts
DerivHMACTruncated(engine, aesK, opts, storeOK) ==
    LET mac == HmacSum(engine.conf.hashFunction, aesK.privKey, opts.Arg)
        hmacedKey == aesPrivateKey(SubSeq(mac, 1, engine.conf.aesBitLength), FALSE)
    IN  StoreUnlessEphemeral(hmacedKey, opts, storeOK, "Failed storing ECDSA key")

\* case *aesPrivateKey, case *bccsp.HMACDeriveKeyOpts
DerivHMAC(engine, aesK, opts, storeOK) ==
    LET mac == HmacSum(engine.conf.hashFunction, aesK.privKey, opts.Arg)
        hmacedKey == aesPrivateKey(mac, TRUE)
    IN  StoreUnlessEphemeral(hmacedKey, opts, storeOK, "Failed storing ECDSA key")

\* the body of impl.KeyDeriv: dispatch on the key's type, then on the options'
KeyDerivImpl(engine, k, opts, storeOK) ==
    IF k = NilKey THEN Fail("Invalid Key. It must not be nil.")
    ELSE IF k.type = "ecdsaPublicKey" THEN
        IF opts = NilOpts THEN Fail("Invalid Opts parameter. It must not be nil.")
        ELSE IF opts.type = "ECDSAReRandKeyOpts" THEN DerivECDSAPublicKey(k, opts, storeOK)
        ELSE Fail("Unrecognized KeyDerivOpts provided")
    ELSE IF k.type = "ecdsaPrivateKey" THEN
        IF opts = NilOpts THEN Fail("Invalid Opts parameter. It must not be nil.")
        ELSE IF opts.type = "ECDSAReRandKeyOpts" THEN DerivECDSAPrivateKey(k, opts, storeOK)
        ELSE Fail("Unrecognized KeyDerivOpts provided")
    ELSE IF k.type = "aesPrivateKey" THEN
        IF opts = NilOpts THEN Fail("Invalid Opts parameter. It must not be nil.")
        ELSE IF opts.type = "HMACTruncated256AESDeriveKeyOpts"
             THEN DerivHMACTruncated(engine, k, opts, storeOK)
        ELSE IF opts.type = "HMACDeriveKeyOpts" THEN DerivHMAC(engine, k, opts, storeOK)
        ELSE Fail("Unrecognized KeyDerivOpts provided")
    ELSE Fail("Key type not recognized")

\* the keys a caller can hold
ECDSAPrivateKeys ==
    UNION {{ecdsaPrivateKey(c, ScalarBaseMult(c, Bytes(d)), d) : d \in 1..(c.N - 1)} :
             c \in Curves}

\* ecdsaPrivateKey.PublicKey()
PublicKey(k) == ecdsaPublicKey(CurveOf(k), PointOf(k))

ECDSAPublicKeys == {PublicKey(k) : k \in ECDSAPrivateKeys}

AESKeys ==
    {aesPrivateKey(Fill(len, b), x) : len \in {16, 24, 32}, b \in 0..MaxFillByte, x \in {FALSE}}

RSAPrivateKeys == {rsaPrivateKey(bits, 0) : bits \in {1024, 2048}}

RSAPublicKeys == {rsaPublicKey(k.bits, k.id) : k \in RSAPrivateKeys}

\* a bccsp.Key of a type this package does not define
ForeignKey == [type |-> "foreignKey"]

KeyInputs ==
    {NilKey, ForeignKey} \cup ECDSAPrivateKeys \cup ECDSAPublicKeys \cup AESKeys
    \cup RSAPrivateKeys \cup RSAPublicKeys

\* the keys the dispatching calls are tried with: every key type, and nil
DispatchKeyInputs ==
    {NilKey, ForeignKey}
    \cup {k \in ECDSAPrivateKeys : k.D = 1}
    \cup {PublicKey(k) : k \in {x \in ECDSAPrivateKeys : x.D = 1}}
    \cup {k \in AESKeys : k.privKey[1] = 0}
    \cup RSAPrivateKeys \cup RSAPublicKeys

ExpansionValues == SeqsUpTo(0..MaxExpByte, MaxExpLen)

ByteStrings == SeqsUpTo(0..MaxFillByte, MaxArgLen)

KeyDerivOptsInputs ==
    {NilOpts}
    \cup {[type |-> "ECDSAReRandKeyOpts", Temporary |-> t, ExpansionValue |-> e] :
            t \in BOOLEAN, e \in ExpansionValues}
    \cup {[type |-> ty, Temporary |-> t, Arg |-> a] :
            ty \in {"HMACTruncated256AESDeriveKeyOpts", "HMACDeriveKeyOpts"},
            t \in BOOLEAN, a \in ByteStrings}
    \cup {[type |-> "UnknownKeyDerivOpts", Temporary |-> t] : t \in BOOLEAN}

KeyDeriv ==
    /\ pc = "idle"
    /\ \E k \in KeyInputs, opts \in KeyDerivOptsInputs, storeOK \in BOOLEAN :
        Returns([op |-> "KeyDeriv", k |-> k, opts |-> opts],
                KeyDerivImpl(csp, k, opts, storeOK))

(***************************************************************************)
(* KeyImport                                                               *)
(***************************************************************************)
NilRaw == [type |-> "nil"]

\* raw material: a []byte value
RawBytes(buf) == [type |-> "[]byte", bytes |-> buf]

\* raw material: an *ecdsa.PublicKey, an *ecdsa.PrivateKey
RawECDSAPublicKey(k) == [type |-> "*ecdsa.PublicKey", Curve |-> k.Curve, X |-> k.X, Y |-> k.Y]

RawECDSAPrivateKey(k) ==
    [type |-> "*ecdsa.PrivateKey", Curve |-> k.Curve, X |-> k.X, Y |-> k.Y, D |-> k.D]

\* raw material: an *rsa.PublicKey, an *rsa.PrivateKey
RawRSAPublicKey(k) == [type |-> "*rsa.PublicKey", bits |-> k.bits, id |-> k.id]

RawRSAPrivateKey(k) == [type |-> "*rsa.PrivateKey", bits |-> k.bits, id |-> k.id]

\* raw material: an *x509.Certificate with its embedded PublicKey
RawCertificate(pk) == [type |-> "*x509.Certificate", PublicKey |-> pk]

DecodeError == [type |-> "error"]

\* utils.Clone
Clone(buf) == [i \in 1..Len(buf) |-> buf[i]]

\* the 256-bit import refusing only material that is too short
ImportAES256AtLeast32(raw, opts, storeOK) ==
    IF raw.type # "[]byte"
    THEN Fail("[AES256ImportKeyOpts] Invalid raw material. Expected byte array.")
    ELSE IF Len(raw.bytes) < 32
    THEN Fail("[AES256ImportKeyOpts] Invalid Key Length. Must be 32 bytes")
    ELSE StoreUnlessEphemeral(aesPrivateKey(Clone(raw.bytes), FALSE), opts, storeOK,
                              "Failed storing AES key")

\* case *bccsp.AES256ImportKeyOpts
ImportAES256(raw, opts, storeOK) ==
    IF raw.type # "[]byte"
    THEN Fail("[AES256ImportKeyOpts] Invalid raw material. Expected byte array.")
    ELSE IF Len(raw.bytes) # 32
    THEN Fail("[AES256ImportKeyOpts] Invalid Key Length. Must be 32 bytes")
    ELSE StoreUnlessEphemeral(aesPrivateKey(Clone(raw.bytes), FALSE), opts, storeOK,
                              "Failed storing AES key")

\* the HMAC-key import marking the imported key exportable
ImportHMACExportable(raw, opts, storeOK) ==
    IF raw.type # "[]byte"
    THEN Fail("[HMACImportKeyOpts] Invalid raw material. Expected byte array.")
    ELSE IF Len(raw.bytes) = 0
    THEN Fail("[HMACImportKeyOpts] Invalid raw. It must not be nil.")
    ELSE StoreUnlessEphemeral(aesPrivateKey(Clone(raw.bytes), TRUE), opts, storeOK,
                              "Failed storing AES key")

\* case *bccsp.HMACImportKeyOpts
ImportHMAC(raw, opts, storeOK) ==
    IF raw.type # "[]byte"
    THEN Fail("[HMACImportKeyOpts] Invalid raw material. Expected byte array.")
    ELSE IF Len(raw.bytes) = 0
    THEN Fail("[HMACImportKeyOpts] Invalid raw. It must not be nil.")
    ELSE StoreUnlessEphemeral(aesPrivateKey(Clone(raw.bytes), FALSE), opts, storeOK,
                              "Failed storing AES key")

\* the body of impl.KeyImport; decoded is what the DER decoder answers for
\* the raw bytes, storeOK what the key store answers
RECURSIVE KeyImportImpl(_, _, _, _, _)
KeyImportImpl(engine, raw, opts, decoded, storeOK) ==
    IF raw = NilRaw THEN Fail("Invalid raw. Cannot be nil")
    ELSE IF opts = NilOpts THEN Fail("Invalid Opts parameter. It must not be nil.")
    ELSE IF opts.type = "AES256ImportKeyOpts" THEN ImportAES256(raw, opts, storeOK)
    ELSE IF opts.type = "HMACImportKeyOpts" THEN ImportHMAC(raw, opts, storeOK)
    ELSE IF opts.type = "ECDSAPKIXPublicKeyImportOpts" THEN
        IF raw.type # "[]byte"
        THEN Fail("[ECDSAPKIXPublicKeyImportOpts] Invalid raw material. Expected byte array.")
        ELSE IF Len(raw.bytes) = 0
        THEN Fail("[ECDSAPKIXPublicKeyImportOpts] Invalid raw. It must not be nil.")
        ELSE IF decoded = DecodeError
        THEN Fail("Failed converting PKIX to ECDSA public key")
        ELSE IF decoded.type # "*ecdsa.PublicKey"
        THEN Fail("Failed casting to ECDSA public key. Invalid raw material.")
        ELSE StoreUnlessEphemeral(ecdsaPublicKey(CurveOf(decoded), PointOf(decoded)),
                                  opts, storeOK, "Failed storing ECDSA key")
    ELSE IF opts.type = "ECDSAPrivateKeyImportOpts" THEN
        IF raw.type # "[]byte"
        THEN Fail("[ECDSADERPrivateKeyImportOpts] Invalid raw material. Expected byte array.")
        ELSE IF Len(raw.bytes) = 0
        THEN Fail("[ECDSADERPrivateKeyImportOpts] Invalid raw. It must not be nil.")
        ELSE IF decoded = DecodeError
        THEN Fail("Failed converting PKIX to ECDSA public key")
        ELSE IF decoded.type # "*ecdsa.PrivateKey"
        THEN Fail("Failed casting to ECDSA public key. Invalid raw material.")
        ELSE StoreUnlessEphemeral(ecdsaPrivateKey(CurveOf(decoded), PointOf(decoded), decoded.D),
                                  opts, storeOK, "Failed storing ECDSA key")
    ELSE IF opts.type = "ECDSAGoPublicKeyImportOpts" THEN
        IF raw.type # "*ecdsa.PublicKey"
        THEN Fail("[ECDSAGoPublicKeyImportOpts] Invalid raw material. Expected *ecdsa.PublicKey.")
        ELSE StoreUnlessEphemeral(ecdsaPublicKey(CurveOf(raw), PointOf(raw)),
                                  opts, storeOK, "Failed storing ECDSA key")
    ELSE IF opts.type = "RSAGoPublicKeyImportOpts" THEN
        IF raw.type # "*rsa.PublicKey"
        THEN Fail("[RSAGoPublicKeyImportOpts] Invalid raw material. Expected *rsa.PublicKey.")
        ELSE StoreUnlessEphemeral(rsaPublicKey(raw.bits, raw.id),
                                  opts, storeOK, "Failed storing RSA publi key")
    ELSE IF opts.type = "X509PublicKeyImportOpts" THEN
        IF raw.type # "*x509.Certificate"
        THEN Fail("[X509PublicKeyImportOpts] Invalid raw material. Expected *x509.Certificate.")
        ELSE LET pk == raw.PublicKey
             IN  IF pk.type = "*ecdsa.PublicKey"
                 THEN KeyImportImpl(engine, pk,
                                    [type |-> "ECDSAGoPublicKeyImportOpts",
                                     Temporary |-> opts.Temporary],
                                    decoded, storeOK)
                 ELSE IF pk.type = "*rsa.PublicKey"
                 THEN KeyImportImpl(engine, pk,
                                    [type |-> "RSAGoPublicKeyImportOpts",
                                     Temporary |-> opts.Temporary],
                                    decoded, storeOK)
                 ELSE Fail("Certificate public key type not recognized. Supported keys: [ECDSA, RSA]")
    ELSE Fail("Unsupported 'KeyImportOptions' provided")

KeyImportOptsTypes ==
    {"AES256ImportKeyOpts", "HMACImportKeyOpts", "ECDSAPKIXPublicKeyImportOpts",
     "ECDSAPrivateKeyImportOpts", "ECDSAGoPublicKeyImportOpts",
     "RSAGoPublicKeyImportOpts", "X509PublicKeyImportOpts"}

KeyImportOptsInputs ==
    {NilOpts}
    \cup {[type |-> t, Temporary |-> e] :
            t \in KeyImportOptsTypes \cup {"UnknownKeyImportOpts"}, e \in BOOLEAN}

\* the native keys a caller, a certificate or a DER encoding can carry
NativeECDSAPrivateKeys == {RawECDSAPrivateKey(k) : k \in {x \in ECDSAPrivateKeys : x.D <= 2}}

NativeECDSAPublicKeys == {RawECDSAPublicKey(k) : k \in {x \in ECDSAPrivateKeys : x.D <= 2}}

NativeRSAPublicKeys == {RawRSAPublicKey(k) : k \in RSAPublicKeys}

NativeRSAPrivateKeys == {RawRSAPrivateKey(k) : k \in RSAPrivateKeys}

RawInputs ==
    {NilRaw, [type |-> "string"]}
    \cup {RawBytes(Fill(len, b)) : len \in 0..MaxRawLen, b \in 0..MaxFillByte}
    \cup NativeECDSAPublicKeys
    \cup NativeRSAPublicKeys
    \cup {RawCertificate(pk) :
            pk \in NativeECDSAPublicKeys \cup NativeRSAPublicKeys \cup {[type |-> "*dsa.PublicKey"]}}

\* what utils.DERToPublicKey and utils.DERToPrivateKey can answer
DERToPublicKey == {DecodeError} \cup NativeECDSAPublicKeys \cup NativeRSAPublicKeys

DERToPrivateKey == {DecodeError} \cup NativeECDSAPrivateKeys \cup NativeRSAPrivateKeys

\* the decoder a call consults, if any
Decoder(raw, opts) ==
    IF raw.type = "[]byte" /\ opts # NilOpts /\ Len(raw.bytes) > 0
    THEN IF opts.type = "ECDSAPKIXPublicKeyImportOpts" THEN DERToPublicKey
         ELSE IF opts.type = "ECDSAPrivateKeyImportOpts" THEN DERToPrivateKey
         ELSE {DecodeError}
    ELSE {DecodeError}

KeyImport ==
    /\ pc = "idle"
    /\ \E raw \in RawInputs, opts \in KeyImportOptsInputs, storeOK \in BOOLEAN :
        \E decoded \in Decoder(raw, opts) :
            Returns([op |-> "KeyImport", raw |-> raw, opts |-> opts],
                    KeyImportImpl(csp, raw, opts, decoded, storeOK))

(***************************************************************************)
(* GetKey, Hash, GetHash, Sign, Verify, Encrypt, Decrypt                   *)
(***************************************************************************)
\* the result of a dispatching call: the value returned, the error, the
\* strategy invoked (none, or one)
Dispatched(val, err, strategies) == [val |-> val, err |-> err, strategies |-> strategies]

Refuse(val, err) == Dispatched(val, err, <<>>)

\* a strategy object of a registry, invoked through one of its methods
Invoke(registry, strategy, method) ==
    [registry |-> registry, strategy |-> strategy, method |-> method]

NilBytes == <<>>

\* reflect.TypeOf(k)
TypeOf(v) == v.type

\* a strategy's answer: a value and no error, or its zero value and an error
StrategyAnswer(val, zero, ok) ==
    IF ok THEN [val |-> val, err |-> NoError] ELSE [val |-> zero, err |-> "strategy error"]

\* the caller's side of every dispatching call
ReturnsDispatched(c, r) ==
    /\ pc' = "returned"
    /\ call' = c
    /\ ret' = [val |-> r.val, err |-> r.err]
    /\ storeCalls' = <<>>
    /\ strategyCalls' = r.strategies
    /\ UNCHANGED <<csp, callers>>

\* the body of impl.GetKey: whatever the key store answers
GetKeyImpl(engine, ski, answer) == Refuse(answer.val, answer.err)

GetKey ==
    /\ pc = "idle"
    /\ \E ski \in SeqsUpTo(0..MaxFillByte, MaxArgLen) :
        \E answer \in {[val |-> NilKey, err |-> "Key not found"]}
                      \cup {[val |-> k, err |-> NoError] : k \in AESKeys \cup RSAPublicKeys} :
            ReturnsDispatched([op |-> "GetKey", ski |-> ski], GetKeyImpl(csp, ski, answer))

HashOptsInputs ==
    {NilOpts}
    \cup {[type |-> t] : t \in {"SHAOpts", "SHA256Opts", "SHA384Opts", "SHA3_256Opts",
                                "SHA3_384Opts", "UnknownHashOpts"}}

\* hasher.Hash(msg, opts): a deterministic digest of the hash's output length
HasherHash(hashFunction, msg) ==
    [i \in 1..HashSize(hashFunction) |-> (SumBytes(msg) + 11 * Len(msg) + 13 * i) % ByteRadix]

\* the body of impl.Hash
HashImpl(engine, msg, opts, ok) ==
    IF opts = NilOpts THEN Refuse(NilBytes, "Invalid opts. It must not be nil.")
    ELSE IF TypeOf(opts) \notin DOMAIN engine.hashers
    THEN Refuse(NilBytes, "Unsupported 'HashOpt' provided")
    ELSE LET hasher == engine.hashers[TypeOf(opts)]
             answer == StrategyAnswer(HasherHash(hasher, msg), NilBytes, ok)
         IN  Dispatched(answer.val, answer.err, <<Invoke("hashers", hasher, "Hash")>>)

Hash ==
    /\ pc = "idle"
    /\ \E msg \in ByteStrings, opts \in HashOptsInputs, ok \in BOOLEAN :
        ReturnsDispatched([op |-> "Hash", msg |-> msg, opts |-> opts],
                          HashImpl(csp, msg, opts, ok))

NilHash == [type |-> "nil"]

\* a GetHash that answers nil options with the default hash function
GetHashImplDefaultOnNil(engine, opts, ok) ==
    LET o == IF opts = NilOpts THEN [type |-> "SHAOpts"] ELSE opts
    IN  IF TypeOf(o) \notin DOMAIN engine.hashers
        THEN Refuse(NilHash, "Unsupported 'HashOpt' provided")
        ELSE LET hasher == engine.hashers[TypeOf(o)]
                 answer == StrategyAnswer([type |-> "hash.Hash", hash |-> hasher], NilHash, ok)
             IN  Dispatched(answer.val, answer.err, <<Invoke("hashers", hasher, "GetHash")>>)

\* the body of impl.GetHash
GetHashImpl(engine, opts, ok) ==
    IF opts = NilOpts THEN Refuse(NilHash, "Invalid opts. It must not be nil.")
    ELSE IF TypeOf(opts) \notin DOMAIN engine.hashers
    THEN Refuse(NilHash, "Unsupported 'HashOpt' provided")
    ELSE LET hasher == engine.hashers[TypeOf(opts)]
             answer == StrategyAnswer([type |-> "hash.Hash", hash |-> hasher], NilHash, ok)
         IN  Dispatched(answer.val, answer.err, <<Invoke("hashers", hasher, "GetHash")>>)

GetHash ==
    /\ pc = "idle"
    /\ \E opts \in HashOptsInputs, ok \in BOOLEAN :
        ReturnsDispatched([op |-> "GetHash", opts |-> opts], GetHashImpl(csp, opts, ok))

\* the body of impl.Sign
SignImpl(engine, k, digest, ok) ==
    IF k = NilKey THEN Refuse(NilBytes, "Invalid Key. It must not be nil.")
    ELSE IF Len(digest) = 0 THEN Refuse(NilBytes, "Invalid digest. Cannot be empty.")
    ELSE IF TypeOf(k) \notin DOMAIN engine.signers
    THEN Refuse(NilBytes, "Unsupported 'SignKey' provided")
    ELSE LET signer == engine.signers[TypeOf(k)]
             answer == StrategyAnswer(<<1>> \o digest, NilBytes, ok)
         IN  Dispatched(answer.val, answer.err, <<Invoke("signers", signer, "Sign")>>)

Sign ==
    /\ pc = "idle"
    /\ \E k \in DispatchKeyInputs, digest \in ByteStrings, ok \in BOOLEAN :
        ReturnsDispatched([op |-> "Sign", k |-> k, digest |-> digest],
                          SignImpl(csp, k, digest, ok))

\* the body of impl.Verify; valid and ok are the verifier's answer
VerifyImpl(engine, k, signature, digest, valid, ok) ==
    IF k = NilKey THEN Refuse(FALSE, "Invalid Key. It must not be nil.")
    ELSE IF Len(signature) = 0 THEN Refuse(FALSE, "Invalid signature. Cannot be empty.")
    ELSE IF Len(digest) = 0 THEN Refuse(FALSE, "Invalid digest. Cannot be empty.")
    ELSE IF TypeOf(k) \notin DOMAIN engine.verifiers
    THEN Refuse(FALSE, "Unsupported 'VerifyKey' provided")
    ELSE LET verifier == engine.verifiers[TypeOf(k)]
             answer   == StrategyAnswer(valid, FALSE, ok)
         IN  Dispatched(answer.val, answer.err, <<Invoke("verifiers", verifier, "Verify")>>)

Verify ==
    /\ pc = "idle"
    /\ \E k \in DispatchKeyInputs, signature \in ByteStrings, digest \in ByteStrings,
          valid \in BOOLEAN, ok \in BOOLEAN :
        ReturnsDispatched([op |-> "Verify", k |-> k, signature |-> signature,
                           digest |-> digest],
                          VerifyImpl(csp, k, signature, digest, valid, ok))

\* the body of impl.Encrypt
EncryptImpl(engine, k, plaintext, ok) ==
    IF k = NilKey THEN Refuse(NilBytes, "Invalid Key. It must not be nil.")
    ELSE IF TypeOf(k) \notin DOMAIN engine.encryptors
    THEN Refuse(NilBytes, "Unsupported 'EncryptKey' provided")
    ELSE LET encryptor == engine.encryptors[TypeOf(k)]
             answer    == StrategyAnswer(<<2>> \o plaintext, NilBytes, ok)
         IN  Dispatched(answer.val, answer.err, <<Invoke("encryptors", encryptor, "Encrypt")>>)

Encrypt ==
    /\ pc = "idle"
    /\ \E k \in DispatchKeyInputs, plaintext \in ByteStrings, ok \in BOOLEAN :
        ReturnsDispatched([op |-> "Encrypt", k |-> k, plaintext |-> plaintext],
                          EncryptImpl(csp, k, plaintext, ok))

\* the body of impl.Decrypt
DecryptImpl(engine, k, ciphertext, ok) ==
    IF k = NilKey THEN Refuse(NilBytes, "Invalid Key. It must not be nil.")
    ELSE IF TypeOf(k) \notin DOMAIN engine.decryptors
    THEN Refuse(NilBytes, "Unsupported 'DecryptKey' provided")
    ELSE LET decryptor == engine.decryptors[TypeOf(k)]
             answer    == StrategyAnswer(IF ciphertext = <<>> THEN <<>> ELSE Tail(ciphertext),
                                         NilBytes, ok)
         IN  Dispatched(answer.val, answer.err, <<Invoke("decryptors", decryptor, "Decrypt")>>)

Decrypt ==
    /\ pc = "idle"
    /\ \E k \in DispatchKeyInputs, ciphertext \in ByteStrings, ok \in BOOLEAN :
        ReturnsDispatched([op |-> "Decrypt", k |-> k, ciphertext |-> ciphertext],
                          DecryptImpl(csp, k, ciphertext, ok))

\* the caller takes the result; the engine keeps nothing of the call
Return ==
    /\ pc = "returned"
    /\ pc' = "idle"
    /\ call' = NoCall
    /\ ret' = NoRet
    /\ storeCalls' = <<>>
    /\ strategyCalls' = <<>>
    /\ UNCHANGED <<csp, callers>>

Next ==
    \/ KeyGen
    \/ KeyDeriv
    \/ KeyImport
    \/ GetKey
    \/ Hash
    \/ GetHash
    \/ Sign
    \/ Verify
    \/ Encrypt
    \/ Decrypt
    \/ Return

Spec == Init /\ [][Next]_vars

(***************************************************************************)
(* Concurrent use: several callers inside calls on one engine at once.     *)
(* A call enters with its arguments, reads the engine (configuration and   *)
(* registries), consults its collaborators, and returns.  The methods take *)
(* no lock, so the steps of different callers interleave freely.           *)
(***************************************************************************)
\* the calls the concurrent callers make: one of every operation
ConcurrentCalls ==
    {[op |-> "KeyGen", opts |-> [type |-> "ECDSAKeyGenOpts", Temporary |-> FALSE]],
     [op |-> "KeyDeriv", k |-> aesPrivateKey(Fill(32, 1), FALSE),
      opts |-> [type |-> "HMACDeriveKeyOpts", Temporary |-> FALSE, Arg |-> <<1>>]],
     [op |-> "KeyImport", raw |-> RawBytes(Fill(32, 1)),
      opts |-> [type |-> "AES256ImportKeyOpts", Temporary |-> FALSE]],
     [op |-> "GetKey", ski |-> <<1>>],
     [op |-> "Hash", msg |-> <<1>>, opts |-> [type |-> "SHAOpts"]],
     [op |-> "GetHash", opts |-> [type |-> "SHA384Opts"]],
     [op |-> "Sign", k |-> rsaPrivateKey(1024, 0), digest |-> <<1>>],
     [op |-> "Verify", k |-> rsaPublicKey(1024, 0), signature |-> <<1>>, digest |-> <<1>>],
     [op |-> "Encrypt", k |-> aesPrivateKey(Fill(32, 0), FALSE), plaintext |-> <<1>>],
     [op |-> "Decrypt", k |-> aesPrivateKey(Fill(32, 0), FALSE), ciphertext |-> <<1>>]}

\* what the collaborators of one call can answer: ok is the answer of the key
\* store (StoreKey, GetKey) or of the invoked strategy, entropy the random
\* source's, decoded the DER decoder's
CollaboratorAnswers(c) ==
    [ok      : BOOLEAN,
     entropy : IF c.op = "KeyGen" THEN 1..2 ELSE {0},
     decoded : IF c.op = "KeyImport" THEN Decoder(c.raw, c.opts) ELSE {DecodeError}]

\* KeyStore.GetKey(ski)
StoreGetKey(ok) ==
    IF ok THEN [val |-> aesPrivateKey(Fill(32, 0), FALSE), err |-> NoError]
    ELSE [val |-> NilKey, err |-> "Key not found"]

\* what call c returns on an engine, given its collaborators' answers
Outcome(engine, c, answer) ==
    LET r == CASE c.op = "KeyGen" ->
                    KeyGenImpl(engine, c.opts, answer.entropy, TRUE, answer.ok)
               [] c.op = "KeyDeriv" -> KeyDerivImpl(engine, c.k, c.opts, answer.ok)
               [] c.op = "KeyImport" ->
                    KeyImportImpl(engine, c.raw, c.opts, answer.decoded, answer.ok)
               [] c.op = "GetKey" -> GetKeyImpl(engine, c.ski, StoreGetKey(answer.ok))
               [] c.op = "Hash" -> HashImpl(engine, c.msg, c.opts, answer.ok)
               [] c.op = "GetHash" -> GetHashImpl(engine, c.opts, answer.ok)
               [] c.op = "Sign" -> SignImpl(engine, c.k, c.digest, answer.ok)
               [] c.op = "Verify" ->
                    VerifyImpl(engine, c.k, c.signature, c.digest, TRUE, answer.ok)
               [] c.op = "Encrypt" -> EncryptImpl(engine, c.k, c.plaintext, answer.ok)
               [] c.op = "Decrypt" -> DecryptImpl(engine, c.k, c.ciphertext, answer.ok)
    IN  [val |-> r.val, err |-> r.err]

\* an engine whose Hash and GetHash remember the last hasher as the default
EngineAfterCachingHasher(engine, c) ==
    IF c.op \in {"Hash", "GetHash"} /\ c.opts # NilOpts
       /\ TypeOf(c.opts) \in DOMAIN engine.hashers
    THEN [engine EXCEPT !.hashers["SHAOpts"] = engine.hashers[TypeOf(c.opts)]]
    ELSE engine

\* the engine's fields after call c: the methods assign to no field of csp
EngineAfter(engine, c) == engine

\* caller self enters one of the engine's methods
Call(self) ==
    /\ callers[self].pc = "idle"
    /\ \E c \in ConcurrentCalls :
        callers' = [callers EXCEPT ![self] = [IdleCaller EXCEPT !.pc = "called", !.call = c]]
    /\ UNCHANGED <<csp, pc, call, ret, storeCalls, strategyCalls>>

\* the call reads the engine's fields
ReadEngine(self) ==
    /\ callers[self].pc = "called"
    /\ callers' = [callers EXCEPT ![self].pc = "dispatched", ![self].engine = csp]
    /\ UNCHANGED <<csp, pc, call, ret, storeCalls, strategyCalls>>

\* the collaborators answer and the call returns
Finish(self) ==
    /\ callers[self].pc = "dispatched"
    /\ \E answer \in CollaboratorAnswers(callers[self].call) :
        callers' = [callers EXCEPT
                      ![self].pc = "returned",
                      ![self].answer = answer,
                      ![self].ret = Outcome(callers[self].engine, callers[self].call, answer)]
    /\ csp' = EngineAfter(csp, callers[self].call)
    /\ UNCHANGED <<pc, call, ret, storeCalls, strategyCalls>>

\* the caller takes the result
Leave(self) ==
    /\ callers[self].pc = "returned"
    /\ callers' = [callers EXCEPT ![self] = IdleCaller]
    /\ UNCHANGED <<csp, pc, call, ret, storeCalls, strategyCalls>>

NextConcurrent ==
    \E self \in Callers :
        \/ Call(self)
        \/ ReadEngine(self)
        \/ Finish(self)
        \/ Leave(self)

SpecConcurrent == Init /\ [][NextConcurrent]_vars

(***************************************************************************)
(* Properties.                                                             *)
(***************************************************************************)
KeyOps == {"KeyGen", "KeyDeriv", "KeyImport"}

\* a call of op has returned
Returned(op) == pc = "returned" /\ call.op = op

\* a KeyGen, KeyDeriv or KeyImport call has returned a key and no error
KeyCallSucceeded == pc = "returned" /\ call.op \in KeyOps /\ ret.err = NoError

\* C1: a successful KeyGen, KeyDeriv or KeyImport call made no StoreKey call
\* when its options are ephemeral, and exactly one, with the returned key,
\* when they are not.
C1_EphemeralStorePolicy ==
    KeyCallSucceeded =>
        IF call.opts.Temporary
        THEN storeCalls = <<>>
        ELSE Len(storeCalls) = 1 /\ storeCalls[1].key = ret.val /\ ret.val # NilKey

\* a non-ephemeral certificate import went through the recursion and stored
\* the imported key once
C1_Witness ==
    /\ KeyCallSucceeded
    /\ call.op = "KeyImport"
    /\ call.opts.type = "X509PublicKeyImportOpts"
    /\ ~call.opts.Temporary
    /\ Len(storeCalls) = 1
    /\ ret.val.type = "ecdsaPublicKey"

\* a KeyGen, KeyDeriv or KeyImport call has returned after a failed StoreKey
StoreFailed ==
    /\ pc = "returned"
    /\ call.op \in KeyOps
    /\ Len(storeCalls) = 1
    /\ ~storeCalls[1].ok

\* C2 as stated: after a failed StoreKey the call reports the error and still
\* returns the computed key.
C2_KeyReturnedOnStoreFailure ==
    StoreFailed => ret.err # NoError /\ ret.val = storeCalls[1].key

\* C2 amended: after a failed StoreKey the call reports the error and returns
\* no key; the computed key, handed to the store, is not returned.
C2_NilKeyOnStoreFailure ==
    StoreFailed =>
        /\ ret.err \in {"Failed storing key", "Failed storing ECDSA key",
                        "Failed storing AES key", "Failed storing RSA publi key"}
        /\ ret.val = NilKey
        /\ storeCalls[1].key # NilKey

\* a key derivation computed a key and the store refused it
C2_Witness ==
    /\ StoreFailed
    /\ call.op = "KeyDeriv"
    /\ storeCalls[1].key.type = "ecdsaPrivateKey"

(***************************************************************************)
(* EC re-randomization.                                                    *)
(***************************************************************************)
\* m*P in the curve's group, by repeated addition
RECURSIVE Multiple(_, _, _)
Multiple(curve, pt, m) ==
    IF m = 0 THEN Infinity ELSE Add(curve, Multiple(curve, pt, m - 1), pt)

Generator(curve) == Pt(curve.Gx, curve.Gy)

CurveError == "Failed temporary public key IsOnCurve check."

\* a KeyDeriv call with re-randomization options on an EC key of the given
\* type has returned
ReRandReturned(keyType) ==
    /\ Returned("KeyDeriv")
    /\ call.k.type = keyType
    /\ call.opts.type = "ECDSAReRandKeyOpts"

\* the scalar k = (e mod (n-1)) + 1 of the call
ScalarOfCall ==
    (SetBytes(call.opts.ExpansionValue) % (CurveOf(call.k).N - 1)) + 1

\* the private scalar d of the call's key: Q = d*G, 1 <= d <= n-1
DOfCall ==
    LET curve == CurveOf(call.k)
    IN  CHOOSE d \in 1..(curve.N - 1) : Multiple(curve, Generator(curve), d) = PointOf(call.k)

\* C3: a successful re-randomization of a private key (d, Q = d*G) with
\* k = (e mod (n-1)) + 1 returns a private key with d' = (d + k) mod n and
\* Q' = Q + k*G, and Q' = d'*G.
C3_ReRandPrivateKeyConsistent ==
    (ReRandReturned("ecdsaPrivateKey") /\ ret.err = NoError) =>
        LET curve == CurveOf(call.k)
            G     == Generator(curve)
            k     == ScalarOfCall
        IN  /\ ret.val.type = "ecdsaPrivateKey"
            /\ ret.val.Curve = call.k.Curve
            /\ ret.val.D = (call.k.D + k) % curve.N
            /\ PointOf(ret.val) = Add(curve, PointOf(call.k), Multiple(curve, G, k))
            /\ PointOf(ret.val) = Multiple(curve, G, ret.val.D)

\* a successful private re-randomization in which d + k wrapped around n
C3_Witness ==
    /\ ReRandReturned("ecdsaPrivateKey")
    /\ ret.err = NoError
    /\ call.k.D + ScalarOfCall > CurveOf(call.k).N
    /\ ret.val.D < call.k.D

\* C4: for a private key and an expansion value e, KeyDeriv on the
\* corresponding public key with the same options returns the public point
\* of the private derivation; the two fail the curve check together, and
\* under the same key store answer they fail or succeed together.
C4_PublicMatchesPrivate ==
    ReRandReturned("ecdsaPrivateKey") =>
        \A storeOK \in BOOLEAN :
            LET pub == KeyDerivImpl(csp, PublicKey(call.k), call.opts, storeOK)
            IN  /\ (ret.err = NoError /\ pub.err = NoError) =>
                        /\ pub.val.type = "ecdsaPublicKey"
                        /\ pub.val.Curve = ret.val.Curve
                        /\ PointOf(pub.val) = PointOf(ret.val)
                /\ (ret.err = CurveError) <=> (pub.err = CurveError)
                /\ (storeCalls = <<>> \/ storeCalls[1].ok = storeOK) =>
                        (ret.err = pub.err)

\* both derivations succeed, with e at least n-1 so that its reduction matters
C4_Witness ==
    /\ ReRandReturned("ecdsaPrivateKey")
    /\ ret.err = NoError
    /\ SetBytes(call.opts.ExpansionValue) >= CurveOf(call.k).N
    /\ KeyDerivImpl(csp, PublicKey(call.k), call.opts, TRUE).err = NoError

\* C5 as stated: for a valid EC key and any expansion value KeyDeriv never
\* returns the curve-validation error.
C5_CurveCheckNeverFails ==
    (ReRandReturned("ecdsaPrivateKey") \/ ReRandReturned("ecdsaPublicKey")) =>
        ret.err # CurveError

\* C5 amended: KeyDeriv returns the curve-validation error exactly when
\* d + k = n, where Q' = Q + k*G is the point at infinity (0, 0); for every
\* other valid key and expansion value the check passes.
C5_CurveCheckFailsOnlyAtInfinity ==
    (ReRandReturned("ecdsaPrivateKey") \/ ReRandReturned("ecdsaPublicKey")) =>
        /\ (ret.err = CurveError) <=> (DOfCall + ScalarOfCall = CurveOf(call.k).N)
        /\ (ret.err = CurveError) <=>
                (Add(CurveOf(call.k), PointOf(call.k),
                     Multiple(CurveOf(call.k), Generator(CurveOf(call.k)), ScalarOfCall))
                 = Infinity)

\* a private key with d + k = n was refused by the curve check
C5_Witness ==
    /\ ReRandReturned("ecdsaPrivateKey")
    /\ call.k.D + ScalarOfCall = CurveOf(call.k).N
    /\ ret.err = CurveError
    /\ ret.val = NilKey

\* the call's options with another expansion value, ephemeral
WithExpansionValue(e) ==
    [type |-> "ECDSAReRandKeyOpts", Temporary |-> TRUE, ExpansionValue |-> e]

\* C6 as stated: for a fixed base key, any two expansion values that differ
\* as unsigned integers give different derived keys.
C6_DistinctValuesDistinctKeys ==
    ((ReRandReturned("ecdsaPrivateKey") \/ ReRandReturned("ecdsaPublicKey"))
     /\ ret.err = NoError) =>
        \A e \in ExpansionValues :
            SetBytes(e) # SetBytes(call.opts.ExpansionValue) =>
                KeyDerivImpl(csp, call.k, WithExpansionValue(e), TRUE).val # ret.val

\* C6 amended: for a fixed base key, two expansion values give the same
\* derived key exactly when they are congruent modulo n-1; values that are
\* not congruent modulo n-1 give different derived keys.
C6_DistinctResiduesDistinctKeys ==
    ((ReRandReturned("ecdsaPrivateKey") \/ ReRandReturned("ecdsaPublicKey"))
     /\ ret.err = NoError) =>
        \A e \in ExpansionValues :
            (KeyDerivImpl(csp, call.k, WithExpansionValue(e), TRUE).val = ret.val)
            <=> (SetBytes(e) % (CurveOf(call.k).N - 1)
                 = SetBytes(call.opts.ExpansionValue) % (CurveOf(call.k).N - 1))

\* a key derived with an expansion value e >= n-1, which another, smaller
\* value of the input set also yields
C6_Witness ==
    /\ ReRandReturned("ecdsaPrivateKey")
    /\ ret.err = NoError
    /\ SetBytes(call.opts.ExpansionValue) >= CurveOf(call.k).N - 1
    /\ \E e \in ExpansionValues :
            /\ SetBytes(e) < SetBytes(call.opts.ExpansionValue)
            /\ KeyDerivImpl(csp, call.k, WithExpansionValue(e), TRUE).val = ret.val

(***************************************************************************)
(* HMAC derivation, import, dispatch.                                      *)
(***************************************************************************)
\* a KeyDeriv call on a symmetric key with the given options has returned a key
HMACDerived(optsType) ==
    /\ Returned("KeyDeriv")
    /\ call.k.type = "aesPrivateKey"
    /\ call.opts.type = optsType
    /\ ret.err = NoError

\* the MAC of the call: HMAC(configured hash, key material, argument)
MacOfCall == HmacSum(csp.conf.hashFunction, call.k.privKey, call.opts.Arg)

\* C7: the truncated variant returns the first aesBitLength bytes of the MAC,
\* marked non-exportable; the full variant returns the whole MAC, of the
\* hash's output length, marked exportable.
C7_HMACDerivationOutput ==
    /\ HMACDerived("HMACTruncated256AESDeriveKeyOpts") =>
            /\ ret.val.type = "aesPrivateKey"
            /\ Len(ret.val.privKey) = csp.conf.aesBitLength
            /\ \A i \in 1..csp.conf.aesBitLength : ret.val.privKey[i] = MacOfCall[i]
            /\ ret.val.exportable = FALSE
    /\ HMACDerived("HMACDeriveKeyOpts") =>
            /\ ret.val.type = "aesPrivateKey"
            /\ ret.val.privKey = MacOfCall
            /\ Len(ret.val.privKey) = HashSize(csp.conf.hashFunction)
            /\ ret.val.exportable = TRUE

\* a truncated derivation under a hash whose output is longer than the
\* configured key length, so that bytes of the MAC were dropped
C7_Witness ==
    /\ HMACDerived("HMACTruncated256AESDeriveKeyOpts")
    /\ Len(ret.val.privKey) < Len(MacOfCall)

\* a KeyImport call has returned a symmetric key
SymmetricKeyImported ==
    /\ Returned("KeyImport")
    /\ ret.err = NoError
    /\ ret.val.type = "aesPrivateKey"

\* C8 as stated: every symmetric key KeyImport returns is exportable.
C8_ImportedKeyExportable ==
    SymmetricKeyImported => ret.val.exportable = TRUE

\* C8 amended: every symmetric key KeyImport returns (256-bit import and
\* HMAC-key import) carries the exportable flag set to false.
C8_ImportedKeyNotExportable ==
    SymmetricKeyImported =>
        /\ call.opts.type \in {"AES256ImportKeyOpts", "HMACImportKeyOpts"}
        /\ ret.val.exportable = FALSE
        /\ ret.val.privKey = call.raw.bytes

\* an HMAC key of a length other than 32 was imported
C8_Witness ==
    /\ SymmetricKeyImported
    /\ call.opts.type = "HMACImportKeyOpts"
    /\ Len(ret.val.privKey) # 32

\* a KeyImport call with the 256-bit symmetric import options has returned
AES256ImportReturned ==
    /\ Returned("KeyImport")
    /\ call.opts.type = "AES256ImportKeyOpts"

\* the raw material of the call is a byte string of length exactly 32
RawIs32Bytes == call.raw.type = "[]byte" /\ Len(call.raw.bytes) = 32

\* the raw material of the call is a byte string of another length
RawIsOtherLength == call.raw.type = "[]byte" /\ Len(call.raw.bytes) # 32

LengthError == "[AES256ImportKeyOpts] Invalid Key Length. Must be 32 bytes"

\* the part of C9 about every other length: a length error, no key and no
\* StoreKey call, whatever the ephemeral flag
OtherLengthsRefused ==
    RawIsOtherLength =>
        /\ ret.err = LengthError
        /\ ret.val = NilKey
        /\ storeCalls = <<>>

\* C9 as stated: the 256-bit import succeeds if and only if the raw material
\* is a byte string of length exactly 32; every other length is refused.
C9_SucceedsIffLength32 ==
    AES256ImportReturned =>
        /\ (ret.err = NoError) <=> RawIs32Bytes
        /\ OtherLengthsRefused

\* C9 amended: the 256-bit import succeeds if and only if the raw material is
\* a byte string of length exactly 32 and, when the options are not
\* ephemeral, StoreKey accepts the key; with 32 bytes the only possible
\* failure is the store's.  Every other length is refused with a length
\* error, no key and no StoreKey call, whatever the ephemeral flag.
C9_SucceedsIffLength32AndStored ==
    AES256ImportReturned =>
        /\ (ret.err = NoError) <=>
                /\ RawIs32Bytes
                /\ call.opts.Temporary \/ (Len(storeCalls) = 1 /\ storeCalls[1].ok)
        /\ RawIs32Bytes =>
                /\ ret.err \in {NoError, "Failed storing AES key"}
                /\ ret.err = NoError => ret.val = aesPrivateKey(call.raw.bytes, FALSE)
        /\ OtherLengthsRefused

\* a 32-byte, non-ephemeral import whose key the store refused
C9_Witness ==
    /\ AES256ImportReturned
    /\ RawIs32Bytes
    /\ ~call.opts.Temporary
    /\ Len(storeCalls) = 1
    /\ ~storeCalls[1].ok
    /\ ret.err = "Failed storing AES key"

\* the arguments of the returned Sign or Verify call pass validation
ArgumentsValid ==
    /\ call.k # NilKey
    /\ call.op \in {"Sign", "Verify"} => Len(call.digest) > 0
    /\ call.op = "Verify" => Len(call.signature) > 0

\* the returned call invoked exactly the strategy its registry holds for the
\* key's type
Reached(registry, method) ==
    strategyCalls = <<Invoke(registry, csp[registry][call.k.type], method)>>

\* C10: with valid arguments Verify reaches a verifier exactly for the four
\* variants EC private, EC public, RSA private, RSA public, and Sign reaches
\* a signer exactly for EC private and RSA private; Sign with an EC or RSA
\* public key or a symmetric key invokes no strategy and returns the
\* unsupported-operation error; Encrypt and Decrypt reach a strategy exactly
\* for symmetric keys.  No call invokes a strategy of another registry or
\* for another key type.
C10_DispatchByKeyVariant ==
    /\ Returned("Verify") =>
            IF ArgumentsValid /\ call.k.type \in {"ecdsaPrivateKey", "ecdsaPublicKey",
                                                  "rsaPrivateKey", "rsaPublicKey"}
            THEN Reached("verifiers", "Verify")
            ELSE strategyCalls = <<>> /\ ret.err # NoError
    /\ Returned("Sign") =>
            /\ IF ArgumentsValid /\ call.k.type \in {"ecdsaPrivateKey", "rsaPrivateKey"}
               THEN Reached("signers", "Sign")
               ELSE strategyCalls = <<>> /\ ret.err # NoError
            /\ (ArgumentsValid /\ call.k.type \in {"ecdsaPublicKey", "rsaPublicKey",
                                                   "aesPrivateKey"})
                    => ret.err = "Unsupported 'SignKey' provided"
    /\ Returned("Encrypt") =>
            IF call.k.type = "aesPrivateKey"
            THEN Reached("encryptors", "Encrypt")
            ELSE strategyCalls = <<>> /\ ret.err # NoError
    /\ Returned("Decrypt") =>
            IF call.k.type = "aesPrivateKey"
            THEN Reached("decryptors", "Decrypt")
            ELSE strategyCalls = <<>> /\ ret.err # NoError

\* Sign with an EC public key and a digest was refused as unsupported
C10_Witness ==
    /\ Returned("Sign")
    /\ call.k.type = "ecdsaPublicKey"
    /\ Len(call.digest) > 0
    /\ strategyCalls = <<>>
    /\ ret.err = "Unsupported 'SignKey' provided"

\* the engine New builds from the configuration the engine holds
ConstructedEngine == New(csp.conf.securityLevel, csp.conf.hashFamily)

\* caller c has returned from its call
CallerReturned(c) == callers[c].pc = "returned"

RegisteredHashOpts == {"SHAOpts", "SHA256Opts", "SHA384Opts", "SHA3_256Opts", "SHA3_384Opts"}

\* a Hash or GetHash call has returned
HashCallReturned == Returned("Hash") \/ Returned("GetHash")

\* the options of the returned call are of a registered variant
OptsRegistered == call.opts # NilOpts /\ call.opts.type \in RegisteredHashOpts

\* the hasher entries Hash and GetHash would reach with the returned call's
\* options, whatever the hasher answers
EntriesReached ==
    {HashImpl(csp, <<>>, call.opts, ok).strategies[1].strategy : ok \in BOOLEAN}
    \cup {GetHashImpl(csp, call.opts, ok).strategies[1].strategy : ok \in BOOLEAN}

=============================================================================
